---- MODULE Spec2Model ----
(***************************************************************************)
(* A model of the YouTube screenshot batch processor:                      *)
(*   src/youtube_batch_processor.py  (VideoProcessor, BatchProcessor, main)*)
(*   src/youtube_screenshots.py      (remove_duplicate_screenshots, ...)   *)
(*                                                                         *)
(* Three specifications share the variables below:                         *)
(*   Spec       main() + BatchProcessor.process_parallel + the worker pool,*)
(*              each job running VideoProcessor.process_video;             *)
(*   SpecDedup  the two deduplication functions applied to bounded inputs; *)
(*   SpecJob    one run of process_video, statement by statement, with the *)
(*              capture loop, the images directory and the workspace.      *)
(***************************************************************************)
EXTENDS Integers, Sequences, FiniteSets, TLC

VARIABLES
  \* ---- main() / BatchProcessor ----
  main_in,         \* what main() is started with: tools, arguments, file
  exit_status,     \* <<>> while the process runs, then <<status>>
  urls,            \* the URL list main() built (args.url or the batch file)
  cpu_count,       \* mp.cpu_count()
  workers,         \* args.workers
  num_workers,     \* BatchProcessor.num_workers (0 before it exists)
  pc,              \* position of the main thread
  fstate,          \* job id -> state of its future
  env,             \* job id -> what the collaborators do during its run
  fut,             \* job id -> what the finished future holds
  yielded,         \* futures already handed out by as_completed
  results,         \* the results list of process_parallel / main
  summary,         \* what print_summary computed (NoSummary before)
  \* ---- deduplication functions on their own ----
  screenshot_files,  \* the list handed to the function
  disk,              \* path -> content id, Absent when no such file
  orig_disk,         \* the disk before the function ran
  locked,            \* paths whose os.remove raises
  unreadable,        \* paths whose open(..., 'rb') raises
  dedup_fn,          \* which function ran ("none" before)
  dedup_raised,      \* whether it raised instead of returning
  duplicates_removed, \* its return value
  dedup_returns,     \* what each call so far left: raised, removed, disk
  \* ---- one run of process_video, statement by statement ----
  jenv,              \* what the collaborators do during this run
  job                \* the run: position, result dict, files, calls made

batch_vars == <<main_in, exit_status, urls, cpu_count, workers, num_workers,
                pc, fstate, env, fut, yielded, results, summary>>
dedup_vars == <<screenshot_files, disk, orig_disk, locked, unreadable,
                dedup_fn, dedup_raised, duplicates_removed, dedup_returns>>
job_vars == <<jenv, job>>
vars == <<batch_vars, dedup_vars, job_vars>>

\* ---------------------------------------------------------------- bounds
MaxFiles == 4      \* longest screenshot list given to a dedup function
MaxContent == 3    \* distinct file contents (byte strings) on disk
MaxCalls == 2      \* calls of a dedup function on the same list

\* ------------------------------------------------------------- utilities
None == "<None>"
Absent == 0

Min(a, b) == IF a <= b THEN a ELSE b

Range(s) == {s[i] : i \in 1..Len(s)}

RECURSIVE SumSeq(_)
SumSeq(s) == IF s = <<>> THEN 0 ELSE Head(s) + SumSeq(Tail(s))

\* dict.get(key, default)
Get(r, k, d) == IF k \in DOMAIN r THEN r[k] ELSE d

(***************************************************************************)
(* File contents.  A content id stands for one byte string.  Decoding is   *)
(* not injective: contents 1 and 2 are different byte strings that decode  *)
(* to the same pixel buffer (the same picture written twice with different *)
(* metadata); every content from 3 on differs from all others in pixels,   *)
(* and from 4 on also in image size.                                       *)
(***************************************************************************)
Contents == 1..MaxContent

\* hashlib.sha256(f.read()).hexdigest(): a digest of the bytes, taken as
\* collision-free
Sha256(b) == "sha256:" \o ToString(b)

\* PIL.Image.open(...).size
ImgSize(b) == IF b >= 4 THEN <<b, b>> ELSE <<1, 1>>

\* np.array(img.convert('RGB'))
ImgPixels(b) == IF b <= 2 THEN <<"px", 1>> ELSE <<"px", b>>

\* os.path.exists
Exists(d, f) == f \in DOMAIN d /\ d[f] # Absent

(***************************************************************************)
(* VideoProcessor.remove_duplicates (youtube_batch_processor.py)           *)
(***************************************************************************)
\* The first loop, from position i on.  open() of an unreadable file raises
\* and nothing catches it inside the function.
RECURSIVE RdScan(_, _, _, _, _, _)
RdScan(files, i, files_to_remove, processed_hashes, d, unr) ==
  IF i > Len(files) THEN [raised |-> FALSE, files_to_remove |-> files_to_remove]
  ELSE LET current_file == files[i] IN
    IF current_file \in files_to_remove \/ ~Exists(d, current_file)
    THEN RdScan(files, i + 1, files_to_remove, processed_hashes, d, unr)
    ELSE IF current_file \in unr
    THEN [raised |-> TRUE, files_to_remove |-> files_to_remove]
    ELSE LET current_hash == Sha256(d[current_file]) IN
      IF current_hash \in DOMAIN processed_hashes
      THEN RdScan(files, i + 1, files_to_remove \cup {current_file},
                  processed_hashes, d, unr)
      ELSE RdScan(files, i + 1, files_to_remove,
                  processed_hashes @@ (current_hash :> current_file), d, unr)

\* A mutant of RemoveMarked: a removal that failed is counted as well.
MutRemoveMarkedCountsFailures(files_to_remove, d, lk) ==
  [removed |-> Cardinality(files_to_remove),
   disk    |-> [p \in DOMAIN d |->
                  IF p \in files_to_remove \ lk THEN Absent ELSE d[p]]]

\* The second loop: os.remove each marked file; a failing removal is passed
\* over and not counted.
RemoveMarked(files_to_remove, d, lk) ==
  [removed |-> Cardinality(files_to_remove \ lk),
   disk    |-> [p \in DOMAIN d |->
                  IF p \in files_to_remove \ lk THEN Absent ELSE d[p]]]

remove_duplicates(files, d, lk, unr) ==
  IF Len(files) <= 1 THEN [raised |-> FALSE, removed |-> 0, disk |-> d]
  ELSE LET scan == RdScan(files, 1, {}, <<>>, d, unr) IN
    IF scan.raised THEN [raised |-> TRUE, removed |-> 0, disk |-> d]
    ELSE LET rm == RemoveMarked(scan.files_to_remove, d, lk) IN
      [raised |-> FALSE, removed |-> rm.removed, disk |-> rm.disk]

(***************************************************************************)
(* get_image_hash, are_images_identical, remove_duplicate_screenshots      *)
(* (youtube_screenshots.py)                                                *)
(***************************************************************************)
\* None when the file cannot be read
get_image_hash(d, unr, f) ==
  IF Exists(d, f) /\ f \notin unr THEN Sha256(d[f]) ELSE None

are_images_identical(d, unr, img1, img2) ==
  LET hash1 == get_image_hash(d, unr, img1)
      hash2 == get_image_hash(d, unr, img2)
  IN IF hash1 # None /\ hash2 # None /\ hash1 = hash2 THEN TRUE
     \* Image.open raises on a file that cannot be read: caught, False
     ELSE IF hash1 = None \/ hash2 = None THEN FALSE
     ELSE IF ImgSize(d[img1]) # ImgSize(d[img2]) THEN FALSE
     ELSE ImgPixels(d[img1]) = ImgPixels(d[img2])

\* The inner loop over j = i+1 .. len-1: it only adds to files_to_remove, and
\* its test on files_to_remove skips files that are in the set already.
RdsCompare(files, i, files_to_remove, d, unr) ==
  files_to_remove \cup
    {files[j] : j \in {k \in (i + 1)..Len(files) :
                         /\ files[k] \notin files_to_remove
                         /\ Exists(d, files[k])
                         /\ are_images_identical(d, unr, files[i], files[k])}}

RECURSIVE RdsScan(_, _, _, _, _, _)
RdsScan(files, i, files_to_remove, processed_hashes, d, unr) ==
  IF i > Len(files) THEN files_to_remove
  ELSE LET current_file == files[i]
           current_hash == get_image_hash(d, unr, current_file)
       IN
    IF \/ current_file \in files_to_remove
       \/ ~Exists(d, current_file)
       \/ current_hash = None
    THEN RdsScan(files, i + 1, files_to_remove, processed_hashes, d, unr)
    ELSE IF current_hash \in DOMAIN processed_hashes
    THEN RdsScan(files, i + 1, files_to_remove \cup {current_file},
                 processed_hashes, d, unr)
    ELSE RdsScan(files, i + 1,
                 RdsCompare(files, i, files_to_remove, d, unr),
                 processed_hashes @@ (current_hash :> current_file), d, unr)

remove_duplicate_screenshots(files, d, lk, unr) ==
  IF Len(files) <= 1 THEN [raised |-> FALSE, removed |-> 0, disk |-> d]
  ELSE LET rm == RemoveMarked(RdsScan(files, 1, {}, <<>>, d, unr), d, lk) IN
    [raised |-> FALSE, removed |-> rm.removed, disk |-> rm.disk]

(***************************************************************************)
(* SpecDedup: the two functions applied to every bounded input.            *)
(* The list holds distinct paths 1..n in capture order (one file name per  *)
(* timestamp); a path may be missing, unreadable or undeletable.           *)
(***************************************************************************)
\* no run of process_video is being followed
JobIdle == jenv = [hang |-> FALSE] /\ job = [pc |-> "off"]

BatchIdle ==
  /\ main_in = [source |-> "none"] /\ exit_status = <<>>
  /\ urls = <<>> /\ cpu_count = 0 /\ workers = 0 /\ num_workers = 0
  /\ pc = "off" /\ fstate = <<>> /\ env = <<>> /\ fut = <<>>
  /\ yielded = {} /\ results = <<>> /\ summary = [total |-> 0]

InitDedup ==
  /\ BatchIdle
  /\ JobIdle
  /\ \E n \in 0..MaxFiles :
       /\ screenshot_files = [i \in 1..n |-> i]
       /\ disk \in [1..n -> {Absent} \cup Contents]
       /\ locked \in {{}} \cup {{p} : p \in 1..n}
       /\ unreadable \in {{}} \cup {{p} : p \in 1..n}
  /\ orig_disk = disk
  /\ dedup_fn = "none"
  /\ dedup_raised = FALSE
  /\ duplicates_removed = 0
  /\ dedup_returns = <<>>

\* One call of the function on the list and the disk as they are now; the
\* same function may be called again on what it left.
DedupApply(name, out) ==
  /\ dedup_fn \in {"none", name}
  /\ Len(dedup_returns) < MaxCalls
  /\ dedup_fn' = name
  /\ disk' = out.disk
  /\ dedup_raised' = out.raised
  /\ duplicates_removed' = out.removed
  /\ dedup_returns' = Append(dedup_returns, out)
  /\ UNCHANGED <<screenshot_files, orig_disk, locked, unreadable>>
  /\ UNCHANGED batch_vars
  /\ UNCHANGED job_vars

RunRemoveDuplicates ==
  DedupApply("remove_duplicates",
             remove_duplicates(screenshot_files, disk, locked, unreadable))

RunRemoveDuplicateScreenshots ==
  DedupApply("remove_duplicate_screenshots",
             remove_duplicate_screenshots(screenshot_files, disk, locked, unreadable))

NextDedup == RunRemoveDuplicates \/ RunRemoveDuplicateScreenshots

SpecDedup == InitDedup /\ [][NextDedup]_vars

(***************************************************************************)
(* VideoProcessor.process_video (youtube_batch_processor.py)               *)
(*                                                                         *)
(* An environment record e says what the collaborators do during one run:  *)
(*   wrapper    "ok" | "raise"   an exception outside process_video's try  *)
(*   info       "ok" | "none" | "raise"   get_video_info                   *)
(*   mkdir      "ok" | "raise"            images_dir.mkdir                 *)
(*   download   "ok" | "fail" | "raise"   download_video                   *)
(*   transcript whether download_video found a caption file               *)
(*   frames     content of each extracted frame; <<>>: extraction failed   *)
(*   locked, unreadable   frames that cannot be deleted / read             *)
(*   pdf        whether assembling the document works                     *)
(*   copy       "ok" | "raise"            shutil.copy2                     *)
(*   cleanup    "ok" | "raise"            TemporaryDirectory.__exit__      *)
(*   msg        the message of the exception a collaborator raises         *)
(*   secs       wall time of the run                                       *)
(*   hang       the run never returns (an external call without timeout)   *)
(***************************************************************************)
\* processor_params as main() builds them
processor_params ==
  [keep_video |-> TRUE, no_transcript |-> FALSE, no_pdf |-> FALSE]

\* str(e) of the exception a stage raised: its message, which is empty for an
\* exception raised without one (MemoryError())
ExcText(e, stage) == IF e.msg = "" THEN "" ELSE e.msg \o " in " \o stage

\* the result dict created at job entry
NewResult(url, job_id) ==
  [url |-> url, job_id |-> job_id, success |-> FALSE, error |-> None,
   duration |-> 0, screenshots |-> 0, pdf_created |-> FALSE,
   transcript_saved |-> FALSE]

\* extract_screenshots: the list of files written, [] on any error
extract_screenshots(e) == [i \in 1..Len(e.frames) |-> i]

\* create_pdf: False when disabled or when nothing could be assembled
create_pdf(e, cfg) == IF cfg.no_pdf THEN FALSE ELSE e.pdf

\* What a block of the job leaves: the result dict so far, the exception it
\* raised (None if none) and whether it ran "return result".
Leaves(r, exc, ret) == [r |-> r, exc |-> exc, ret |-> ret]

\* A mutant of AfterCapture: the job is marked successful before the source
\* media is copied.
MutAfterCaptureSuccessBeforeCopy(r, e, cfg, files) ==
  LET dd == remove_duplicates(files, e.frames, e.locked, e.unreadable)
      r1 == [r EXCEPT !.screenshots = Len(files) - dd.removed,
                      !.pdf_created = create_pdf(e, cfg),
                      !.success = TRUE]
  IN IF dd.raised THEN Leaves(r, ExcText(e, "remove_duplicates"), FALSE)
     ELSE IF cfg.keep_video /\ e.copy = "raise"
     THEN Leaves(r1, ExcText(e, "copy2"), FALSE)
     ELSE Leaves(r1, None, FALSE)

\* the branch "if screenshot_files:" of the with-block
AfterCapture(r, e, cfg, files) ==
  LET dd == remove_duplicates(files, e.frames, e.locked, e.unreadable)
      r1 == [r EXCEPT !.screenshots = Len(files) - dd.removed]
      r2 == IF cfg.no_pdf THEN r1
            ELSE [r1 EXCEPT !.pdf_created = create_pdf(e, cfg)]
  IN IF dd.raised THEN Leaves(r, ExcText(e, "remove_duplicates"), FALSE)
     ELSE IF cfg.keep_video /\ e.copy = "raise"
     THEN Leaves(r2, ExcText(e, "copy2"), FALSE)
     ELSE Leaves([r2 EXCEPT !.success = TRUE], None, FALSE)

\* the body of "with tempfile.TemporaryDirectory() as temp_dir:"
WithBody(r, e, cfg) ==
  IF e.download = "raise" THEN Leaves(r, ExcText(e, "download_video"), FALSE)
  ELSE IF e.download = "fail"
  THEN Leaves([r EXCEPT !.error = "Failed to download video"], None, TRUE)
  ELSE LET r1 == [r EXCEPT !.transcript_saved =
                               e.transcript /\ ~cfg.no_transcript]
           captured == extract_screenshots(e)
       IN IF captured # <<>>
          THEN AfterCapture(r1, e, cfg, captured)
          ELSE Leaves([r1 EXCEPT !.error = "No screenshots extracted"],
                      None, FALSE)

\* the with-statement: the workspace is removed on every way out of the body;
\* a removal that raises replaces whatever the body was doing
WithTempDir(r, e, cfg) ==
  LET body == WithBody(r, e, cfg) IN
  IF e.cleanup = "raise" THEN Leaves(body.r, ExcText(e, "cleanup"), FALSE)
  ELSE body

\* A mutant of TryBlock: a missing video info returns without setting the
\* error text.
MutTryBlockNoErrorText(r, e, cfg) ==
  IF e.info = "raise" THEN Leaves(r, ExcText(e, "get_video_info"), FALSE)
  ELSE IF e.info = "none" THEN Leaves(r, None, TRUE)
  ELSE IF e.mkdir = "raise" THEN Leaves(r, ExcText(e, "mkdir"), FALSE)
  ELSE WithTempDir(r, e, cfg)

\* the try-block
TryBlock(r, e, cfg) ==
  IF e.info = "raise" THEN Leaves(r, ExcText(e, "get_video_info"), FALSE)
  ELSE IF e.info = "none"
  THEN Leaves([r EXCEPT !.error = "Failed to get video info"], None, TRUE)
  ELSE IF e.mkdir = "raise" THEN Leaves(r, ExcText(e, "mkdir"), FALSE)
  ELSE WithTempDir(r, e, cfg)

process_video(url, job_id, e, cfg) ==
  LET t == TryBlock(NewResult(url, job_id), e, cfg)
      caught == IF t.exc # None THEN [t.r EXCEPT !.error = t.exc] ELSE t.r
  IN IF t.ret THEN t.r
     ELSE [caught EXCEPT !.duration = e.secs]

\* What the future of a job holds once the worker is done with
\* process_video_wrapper(args): the returned dict, or the exception raised.
Returned(v) == [kind |-> "result", value |-> v]
Raises(text) == [kind |-> "exception", value |-> text]

process_video_wrapper(args, e) ==
  IF e.wrapper = "raise" THEN Raises(ExcText(e, "process_video_wrapper"))
  ELSE Returned(process_video(args.url, args.job_id, e, args.params))


(***************************************************************************)
(* main() and BatchProcessor (youtube_batch_processor.py)                  *)
(***************************************************************************)
MaxUrls == 2         \* longest URL list
MaxCpu == 3          \* largest mp.cpu_count()
MaxWorkersArg == 2   \* largest --workers value
JobTimeout == 600    \* future.result(timeout=600)

Url(i) == "https://youtu.be/" \o ToString(i)

\* URL lists of length n: all URLs distinct, or the first one repeating the
\* last
UrlLists(n) ==
  {[i \in 1..n |-> Url(i)], [i \in 1..n |-> IF i = 1 THEN Url(n) ELSE Url(i)]}

\* check_dependencies: yt-dlp, ffmpeg, ffprobe, PIL and numpy are all there
check_dependencies(missing) == missing = {}

\* str.strip() of a line: the blanks at both ends are taken off
RECURSIVE StripLine(_)
StripLine(line) ==
  IF line = <<>> THEN line
  ELSE IF Head(line) = " " THEN StripLine(Tail(line))
  ELSE IF line[Len(line)] = " " THEN StripLine(SubSeq(line, 1, Len(line) - 1))
  ELSE line

\* read_urls_from_file: the stripped lines that are not empty and do not
\* start with '#'; [] when the file cannot be read. A line is a sequence
\* of blanks, '#' and URLs, a kept line here holding one URL.
read_urls_from_file(file) ==
  IF ~file.readable THEN <<>>
  ELSE LET stripped == [i \in 1..Len(file.lines) |-> StripLine(file.lines[i])]
           kept == SelectSeq(stripped,
                             LAMBDA ln : ln # <<>> /\ Head(ln) # "#")
       IN [i \in 1..Len(kept) |-> Head(kept[i])]

\* the batch file that holds the given URLs, after a comment and an empty
\* line, each URL with blanks around it
FileOf(us) ==
  [readable |-> TRUE,
   lines |-> <<<<"#", " ", Url(1)>>, <<" ">>>>
               \o [i \in 1..Len(us) |-> <<" ", us[i], " ">>]]

NoFile == [readable |-> FALSE, lines |-> <<>>]

\* batch files: one per URL list, an empty file, a file of a comment and
\* an empty line, a file that cannot be opened
BatchFiles ==
  {FileOf(us) : us \in UNION {UrlLists(n) : n \in 1..MaxUrls}}
    \cup {FileOf(<<>>), [readable |-> TRUE, lines |-> <<>>], NoFile}

\* what main() is started with: the missing dependencies, --interval,
\* and --url or --batch
MainInputs ==
  {[missing |-> ms, interval |-> iv, source |-> "url", url |-> Url(1),
    file |-> NoFile] : ms \in {{}, {"ffmpeg"}}, iv \in {0, 1}}
  \cup {[missing |-> ms, interval |-> iv, source |-> "batch", url |-> None,
         file |-> f] : ms \in {{}, {"ffmpeg"}}, iv \in {0, 1}, f \in BatchFiles}

\* main, "Get URLs"
MainUrls(in) ==
  IF in.source = "url" THEN <<in.url>> ELSE read_urls_from_file(in.file)

\* main, the three sys.exit(1) before any processing
MainRejects(in) ==
  \/ ~check_dependencies(in.missing)
  \/ in.interval <= 0
  \/ in.source = "batch" /\ MainUrls(in) = <<>>

\* Environments of one run: everything works, or one collaborator misbehaves.
EnvOk ==
  [wrapper |-> "ok", info |-> "ok", mkdir |-> "ok", download |-> "ok",
   transcript |-> TRUE, frames |-> <<1, 1>>, locked |-> {}, unreadable |-> {},
   pdf |-> TRUE, copy |-> "ok", cleanup |-> "ok", msg |-> "error",
   secs |-> JobTimeout \div 10, hang |-> FALSE]

EnvSlow == [EnvOk EXCEPT !.secs = JobTimeout + 1]
EnvHang == [EnvOk EXCEPT !.hang = TRUE]
EnvWrapperRaise == [EnvOk EXCEPT !.wrapper = "raise"]
EnvInfoNone == [EnvOk EXCEPT !.info = "none"]
EnvPdfFails == [EnvOk EXCEPT !.pdf = FALSE]
EnvCopyRaise == [EnvOk EXCEPT !.copy = "raise"]
EnvCleanupRaise == [EnvOk EXCEPT !.cleanup = "raise"]

\* the environments jobs of a batch are run in
BatchEnvs ==
  {EnvOk, EnvSlow, EnvHang, EnvWrapperRaise, EnvInfoNone, EnvPdfFails,
   EnvCopyRaise, EnvCleanupRaise}

\* the environments the job of a single-URL run is run in
Envs ==
  BatchEnvs \cup
  {[EnvOk EXCEPT !.info = "raise"],
   [EnvOk EXCEPT !.mkdir = "raise"],
   [EnvOk EXCEPT !.download = "fail"],
   [EnvOk EXCEPT !.download = "raise"],
   [EnvOk EXCEPT !.download = "fail", !.cleanup = "raise"],
   [EnvOk EXCEPT !.transcript = FALSE],
   [EnvOk EXCEPT !.frames = <<>>],
   [EnvOk EXCEPT !.frames = <<1>>],
   [EnvOk EXCEPT !.unreadable = {1}],
   [EnvOk EXCEPT !.unreadable = {1}, !.msg = ""],
   [EnvOk EXCEPT !.locked = {2}],
   [EnvOk EXCEPT !.pdf = FALSE, !.copy = "raise"]}

NoEnv == [hang |-> FALSE]
NoFuture == [kind |-> "none"]
NoSummary == [total |-> 0]

N == Len(urls)

\* BatchProcessor.__init__: self.num_workers
BatchProcessorInit(us, cpus) == Min(cpus, Len(us))

\* main(): "Set number of workers"
MainNumWorkers(w, cpus) == IF w > 0 THEN w ELSE cpus

\* main(): batch_processor.num_workers = num_workers, after the constructor
\* has set its own value
PoolSize(from_init, from_main) == from_main

\* A mutant of job_args: the job id is the 0-based index.
MutJobArgsZeroBased(us) ==
  [p \in 1..Len(us) |->
     [url |-> us[p], job_id |-> p - 1, params |-> processor_params]]

\* process_parallel: job_args, by position in the URL list (idx = position-1)
job_args(us) ==
  [p \in 1..Len(us) |->
     [url |-> us[p], job_id |-> (p - 1) + 1, params |-> processor_params]]

\* process_parallel: futures, the job id kept for each submitted future
futures(us) == [p \in 1..Len(us) |-> job_args(us)[p].job_id]

Running == {p \in DOMAIN fstate : fstate[p] = "running"}

\* Mutants of CanStart: a pool that runs one job more than max_workers, and a
\* pool that keeps one of its workers idle.
MutCanStartOneTooMany(n_running, max_workers) == n_running <= max_workers
MutCanStartOneIdle(n_running, max_workers) == n_running < max_workers - 1

\* ProcessPoolExecutor(max_workers): a worker process takes the next queued
\* call only when it is idle
CanStart(n_running, max_workers) == n_running < max_workers

\* future.result(timeout): what a done future holds; a future that is not done
\* raises TimeoutError once the timeout has passed
FutureResult(st, f, timeout) ==
  IF st = "finished" THEN f ELSE Raises("TimeoutError")

\* the body of the "for future in as_completed(futures)" loop: the record
\* appended to results
CollectRecord(job_id, st, f) ==
  LET got == FutureResult(st, f, JobTimeout) IN
  IF got.kind = "result" THEN got.value
  ELSE [job_id |-> job_id, success |-> FALSE, error |-> got.value]

\* A mutant of print_summary: a record counts as failed when it carries an
\* error, not when its success flag is false.
MutPrintSummaryFailedByError(rs) ==
  LET successful == Cardinality({i \in 1..Len(rs) : Get(rs[i], "success", FALSE)})
      failed == Cardinality({i \in 1..Len(rs) : Get(rs[i], "error", None) # None})
  IN [total |-> Len(rs),
      successful |-> successful,
      failed |-> failed,
      total_screenshots |-> SumSeq([i \in 1..Len(rs) |-> Get(rs[i], "screenshots", 0)]),
      failed_videos |->
        SelectSeq([i \in 1..Len(rs) |->
                     [job_id |-> Get(rs[i], "job_id", None),
                      url |-> Get(rs[i], "url", None),
                      error |-> Get(rs[i], "error", None),
                      success |-> Get(rs[i], "success", FALSE)]],
                  LAMBDA x : x.error # None)]

\* print_summary: the numbers and the "Failed videos" lines it prints
print_summary(rs) ==
  LET successful == Cardinality({i \in 1..Len(rs) : Get(rs[i], "success", FALSE)})
      failed == Len(rs) - successful
  IN [total |-> Len(rs),
      successful |-> successful,
      failed |-> failed,
      total_screenshots |-> SumSeq([i \in 1..Len(rs) |-> Get(rs[i], "screenshots", 0)]),
      failed_videos |->
        IF failed > 0
        THEN SelectSeq([i \in 1..Len(rs) |->
                          [job_id |-> Get(rs[i], "job_id", None),
                           url |-> Get(rs[i], "url", None),
                           error |-> Get(rs[i], "error", None),
                           success |-> Get(rs[i], "success", FALSE)]],
                       LAMBDA x : ~x.success)
        ELSE <<>>]

DedupIdle ==
  /\ screenshot_files = <<>> /\ disk = <<>> /\ orig_disk = <<>>
  /\ locked = {} /\ unreadable = {} /\ dedup_fn = "none"
  /\ dedup_raised = FALSE /\ duplicates_removed = 0
  /\ dedup_returns = <<>>

Init ==
  /\ DedupIdle
  /\ JobIdle
  /\ main_in \in MainInputs
  /\ exit_status = <<>>
  /\ urls = IF MainRejects(main_in) THEN <<>> ELSE MainUrls(main_in)
  /\ cpu_count \in 1..MaxCpu
  /\ workers \in 0..MaxWorkersArg
  /\ num_workers = 0
  /\ pc = "main"
  /\ fstate = <<>> /\ env = <<>> /\ fut = <<>>
  /\ yielded = {}
  /\ results = <<>>
  /\ summary = NoSummary

\* main() up to "Get URLs": a missing dependency, an interval that is not
\* positive or a batch file without URLs end the process with sys.exit(1)
MainExit ==
  /\ pc = "main" /\ MainRejects(main_in)
  /\ exit_status' = <<1>>
  /\ pc' = "sys.exit"
  /\ UNCHANGED <<main_in, urls, cpu_count, workers, num_workers, fstate, env,
                 fut, yielded, results, summary>>
  /\ UNCHANGED dedup_vars
  /\ UNCHANGED job_vars

\* main() with one URL: the job runs inline, no pool and no summary; main
\* prints the outcome and returns
MainSingle ==
  /\ pc = "main" /\ ~MainRejects(main_in) /\ N = 1
  /\ \E e \in Envs \ {EnvHang, EnvWrapperRaise} :
       /\ env' = <<e>>
       /\ results' = <<process_video(urls[1], 1, e, processor_params)>>
  /\ pc' = "done"
  /\ exit_status' = <<0>>
  /\ UNCHANGED <<main_in, urls, cpu_count, workers, num_workers, fstate, fut,
                 yielded, summary>>
  /\ UNCHANGED dedup_vars
  /\ UNCHANGED job_vars

\* main() with several URLs, up to the submission of all jobs
MainBatch ==
  /\ pc = "main" /\ ~MainRejects(main_in) /\ N > 1
  /\ num_workers' = PoolSize(BatchProcessorInit(urls, cpu_count),
                             MainNumWorkers(workers, cpu_count))
  /\ fstate' = [p \in 1..N |-> "pending"]
  /\ env' = [p \in 1..N |-> NoEnv]
  /\ fut' = [p \in 1..N |-> NoFuture]
  /\ pc' = "pool"
  /\ UNCHANGED <<main_in, exit_status, urls, cpu_count, workers, yielded,
                 results, summary>>
  /\ UNCHANGED dedup_vars
  /\ UNCHANGED job_vars

\* a worker process takes the oldest queued call
Start(p) ==
  /\ pc = "pool" /\ p \in DOMAIN fstate /\ fstate[p] = "pending"
  /\ \A q \in 1..(p - 1) : fstate[q] # "pending"
  /\ CanStart(Cardinality(Running), num_workers)
  /\ fstate' = [fstate EXCEPT ![p] = "running"]
  /\ \E e \in BatchEnvs : env' = [env EXCEPT ![p] = e]
  /\ UNCHANGED <<main_in, exit_status, urls, cpu_count, workers, num_workers,
                 pc, fut, yielded, results, summary>>
  /\ UNCHANGED dedup_vars
  /\ UNCHANGED job_vars

\* the worker's call returns or raises
Finish(p) ==
  /\ pc = "pool" /\ p \in DOMAIN fstate
  /\ fstate[p] = "running" /\ ~env[p].hang
  /\ fstate' = [fstate EXCEPT ![p] = "finished"]
  /\ fut' = [fut EXCEPT ![p] = process_video_wrapper(job_args(urls)[p], env[p])]
  /\ UNCHANGED <<main_in, exit_status, urls, cpu_count, workers, num_workers,
                 pc, env, yielded, results, summary>>
  /\ UNCHANGED dedup_vars
  /\ UNCHANGED job_vars

\* one pass of the as_completed loop: it hands out a future that is done
Collect(p) ==
  /\ pc = "pool" /\ p \in DOMAIN fstate
  /\ fstate[p] = "finished" /\ p \notin yielded
  /\ yielded' = yielded \cup {p}
  /\ results' = Append(results, CollectRecord(futures(urls)[p], fstate[p], fut[p]))
  /\ UNCHANGED <<main_in, exit_status, urls, cpu_count, workers, num_workers,
                 pc, fstate, env, fut, summary>>
  /\ UNCHANGED dedup_vars
  /\ UNCHANGED job_vars

MutSummarizeAfterFirstRecord ==
  /\ pc = "pool" /\ yielded # {}
  /\ summary' = print_summary(results)
  /\ pc' = "done"
  /\ exit_status' = <<0>>
  /\ UNCHANGED <<main_in, urls, cpu_count, workers, num_workers, fstate, env,
                 fut, yielded, results>>
  /\ UNCHANGED dedup_vars
  /\ UNCHANGED job_vars

\* the loop is exhausted, the executor is shut down, print_summary, return
Summarize ==
  /\ pc = "pool" /\ yielded = 1..N
  /\ \A p \in 1..N : fstate[p] = "finished"
  /\ summary' = print_summary(results)
  /\ pc' = "done"
  /\ exit_status' = <<0>>
  /\ UNCHANGED <<main_in, urls, cpu_count, workers, num_workers, fstate, env,
                 fut, yielded, results>>
  /\ UNCHANGED dedup_vars
  /\ UNCHANGED job_vars

Next ==
  \/ MainExit
  \/ MainSingle
  \/ MainBatch
  \/ \E p \in 1..N : Start(p)
  \/ \E p \in 1..N : Finish(p)
  \/ \E p \in 1..N : Collect(p)
  \/ Summarize

Spec == Init /\ [][Next]_vars


(***************************************************************************)
(* SpecJob: one run of VideoProcessor.process_video, statement by          *)
(* statement (youtube_batch_processor.py).                                 *)
(*                                                                         *)
(* A file of the images directory is named by the part of its path after   *)
(* "<images_dir>/<title_prefix>_", a sequence of characters such as        *)
(* <<"0","0","1","0","s",".","j","p","g">>.                                *)
(***************************************************************************)
MaxGrid == 4          \* most whole intervals in a probed duration
LongInterval == 2500  \* the longest capture interval, in seconds
TicksPerSecond == 2   \* resolution of the probed duration, a float
InfoTimeout == 30     \* subprocess.run(..., timeout=30) in get_video_info

\* ord(c) of the characters file names are made of
Ord(c) ==
  CASE c = "." -> 46
    [] c = "0" -> 48 [] c = "1" -> 49 [] c = "2" -> 50 [] c = "3" -> 51
    [] c = "4" -> 52 [] c = "5" -> 53 [] c = "6" -> 54 [] c = "7" -> 55
    [] c = "8" -> 56 [] c = "9" -> 57
    [] c = "g" -> 103 [] c = "j" -> 106 [] c = "n" -> 110
    [] c = "p" -> 112 [] c = "s" -> 115

DigitChar(d) == <<"0", "1", "2", "3", "4", "5", "6", "7", "8", "9">>[d + 1]

\* the decimal digits of a natural number
RECURSIVE Decimal(_)
Decimal(n) ==
  IF n < 10 THEN <<DigitChar(n)>>
  ELSE Decimal(n \div 10) \o <<DigitChar(n % 10)>>

\* the format spec "0<width>d": zeros in front up to a minimum width
RECURSIVE ZeroPad(_, _)
ZeroPad(digits, width) ==
  IF Len(digits) >= width THEN digits ELSE ZeroPad(<<"0">> \o digits, width)

\* time_str = f"{int(current_time):04d}s"
time_str(current_time) == ZeroPad(Decimal(current_time), 4) \o <<"s">>

Extension(quality) ==
  IF quality = "highest" THEN <<".", "p", "n", "g">> ELSE <<".", "j", "p", "g">>

\* output_file = os.path.join(output_dir, f"{title_prefix}_{time_str}.jpg")
output_file(current_time, quality) == time_str(current_time) \o Extension(quality)

\* str.__lt__: by the code points of the first differing character, a proper
\* prefix first
RECURSIVE LexLess(_, _)
LexLess(a, b) ==
  IF a = <<>> THEN b # <<>>
  ELSE IF b = <<>> THEN FALSE
  ELSE IF Head(a) = Head(b) THEN LexLess(Tail(a), Tail(b))
  ELSE Ord(Head(a)) < Ord(Head(b))

\* sorted(paths) of paths in one directory
RECURSIVE Sorted(_)
Sorted(S) ==
  IF S = {} THEN <<>>
  ELSE LET least == CHOOSE x \in S : \A y \in S \ {x} : LexLess(x, y)
       IN <<least>> \o Sorted(S \ {least})

\* Path(images_dir).glob('*' + ext)
Glob(d, ext) ==
  {f \in DOMAIN d :
     /\ d[f] # Absent /\ Len(f) >= Len(ext)
     /\ SubSeq(f, Len(f) - Len(ext) + 1, Len(f)) = ext}

\* create_pdf: image_files
image_files(d) == Sorted(Glob(d, Extension("high")) \cup Glob(d, Extension("highest")))

\* create_pdf: pdf_images, the pages; an image that cannot be opened is
\* passed over
pdf_images(d, unr) == SelectSeq(image_files(d), LAMBDA f : f \notin unr)

\* A mutant of get_video_info: the timeout of the tool is not caught.
MutGetVideoInfoTimeoutEscapes(status, secs) ==
  IF secs > InfoTimeout THEN "raise"
  ELSE IF status \in {"CalledProcessError", "JSONDecodeError"} THEN "none"
  ELSE IF status = "ok" THEN "ok"
  ELSE "raise"

\* get_video_info, given how yt-dlp ends and how long it takes: "ok" for the
\* info dict, "none" for None, "raise" for an exception that is not caught
get_video_info(status, secs) ==
  IF secs > InfoTimeout THEN "none"
  ELSE IF status \in {"CalledProcessError", "JSONDecodeError"} THEN "none"
  ELSE IF status = "ok" THEN "ok"
  ELSE "raise"

\* A mutant of LoopContinues: the loop stops before the duration is reached.
MutLoopContinuesStrict(current_time, duration) ==
  current_time * TicksPerSecond < duration

\* "while current_time <= duration:", the duration counted in ticks
LoopContinues(current_time, duration) ==
  current_time * TicksPerSecond <= duration

\* the values current_time takes in the loop when no call fails
RECURSIVE Grid(_, _, _)
Grid(current_time, duration, interval) ==
  IF LoopContinues(current_time, duration)
  THEN <<current_time>> \o Grid(current_time + interval, duration, interval)
  ELSE <<>>

\* Frame contents by position in the capture sequence.
UniqueFrameContents == [k \in 1..(MaxGrid + 1) |-> k + 2]
SecondAndFourthSame == [k \in 1..(MaxGrid + 1) |-> IF k = 4 THEN 4 ELSE k + 2]
AllSame == [k \in 1..(MaxGrid + 1) |-> 1]

(***************************************************************************)
(* sanitize_filename, the caption files and the titles of a job           *)
(***************************************************************************)
invalid_chars == {"<", ">", ":", "\"", "/", "\\", "|", "?", "*"}

\* str.strip('. '): dots and blanks are taken off both ends
RECURSIVE Strip(_)
Strip(str) ==
  IF str = <<>> THEN str
  ELSE IF Head(str) \in {".", " "} THEN Strip(Tail(str))
  ELSE IF str[Len(str)] \in {".", " "} THEN Strip(SubSeq(str, 1, Len(str) - 1))
  ELSE str

\* VideoProcessor.sanitize_filename, a string being a sequence of characters
sanitize_filename(filename, max_length) ==
  LET removed == SelectSeq(filename, LAMBDA c : c \notin invalid_chars)
      stripped == Strip(removed)
      replaced == [i \in 1..Len(stripped) |->
                     IF stripped[i] = " " THEN "_" ELSE stripped[i]]
  IN IF Len(replaced) > max_length THEN SubSeq(replaced, 1, max_length)
     ELSE replaced

\* the caption files download_video looks for, in the order it tries them
MutSubtitlePatternsPlainFirst == <<".srt", ".vtt", ".en.srt", ".en.vtt">>

subtitle_patterns == <<".en.srt", ".en.vtt", ".srt", ".vtt">>

\* convert_srt_to_text: True once the text file is written, False after any
\* exception (the caption file cannot be read, the text file not written)
convert_srt_to_text(outcome) ==
  [returned |-> outcome = "ok", written |-> outcome = "ok"]

\* download_video after yt-dlp has returned, "Check for transcript": the
\* first caption file that exists is handed to convert_srt_to_text, whose
\* return value is dropped
download_video(captions, outcome, no_transcript) ==
  LET existing == SelectSeq(subtitle_patterns, LAMBDA pt : pt \in captions)
  IN IF no_transcript \/ existing = <<>>
     THEN [transcript_found |-> FALSE, converted |-> <<>>, written |-> FALSE]
     ELSE [transcript_found |-> TRUE, converted |-> <<Head(existing)>>,
           written |-> convert_srt_to_text(outcome).written]

\* max_length: int = 100, the bound process_video leaves at its default
DefaultMaxLength == 100

\* the longest of the short titles tried
MaxTitle == 3

\* the characters titles are made of: a letter, a dot, a blank and two of
\* the characters sanitize_filename takes out
TitleChars == {"a", ".", " ", ":", "/"}

\* the titles of at most n characters
ShortTitles(n) == UNION {[1..k -> TitleChars] : k \in 0..n}

\* titles one character longer than the bound, letters but for the
\* character the cut leaves last
LongTitles ==
  {[i \in 1..(DefaultMaxLength + 1) |->
      IF i = DefaultMaxLength THEN c ELSE "a"] : c \in TitleChars}

\* What a run meets beyond the fields of EnvOk:
\*   yt_dlp, yt_secs  how the metadata call of yt-dlp ends, and after how long
\*   probe            "ok" | "fail"   ffprobe and float() of its output
\*   duration         the probed duration, in ticks
\*   interval         self.interval, in seconds
\*   fail_at          the ffmpeg call that fails (0: none)
\*   contents         the content of each frame, by position
\*   stale            the image files the images directory holds already
\*   quality, params  self.quality and keep_video, no_transcript, no_pdf
\*   title            video_info['title']
\*   captions         the caption files yt-dlp left next to the video, by
\*                    what follows the video's base name
\*   convert          "ok" | "fail"   convert_srt_to_text
MeetsOk ==
  [yt_dlp |-> "ok", yt_secs |-> 1, probe |-> "ok", title |-> <<"v">>,
   captions |-> {".en.srt"}, convert |-> "ok",
   duration |-> TicksPerSecond, interval |-> 1, fail_at |-> 0,
   contents |-> AllSame, stale |-> <<>>, quality |-> "high",
   params |-> processor_params]

\* the frames extract_screenshots hands on: none after a failure
FramesOf(x) ==
  LET grid == Grid(0, x.duration, x.interval) IN
  IF x.probe = "ok" /\ x.fail_at \notin 1..Len(grid)
  THEN [k \in 1..Len(grid) |-> x.contents[k]]
  ELSE <<>>

JobEnv(base, x) ==
  [base EXCEPT !.info = get_video_info(x.yt_dlp, x.yt_secs),
               !.transcript = (x.captions # {}),
               !.frames = FramesOf(x)] @@ x

Intervals == {1, 2, LongInterval}

\* durations of up to MaxGrid intervals and a fraction of the next
Durations(interval) ==
  {k * interval * TicksPerSecond + r :
     k \in 0..MaxGrid, r \in {0, 1, interval * TicksPerSecond - 1}}

Qualities == {"high", "highest"}

\* every collaborator works; durations, intervals and contents vary
GridEnvs ==
  UNION {{JobEnv(EnvOk, [MeetsOk EXCEPT !.duration = d, !.interval = i,
                                        !.contents = c, !.quality = q]) :
            d \in Durations(i), c \in {UniqueFrameContents, SecondAndFourthSame},
            q \in Qualities} :
         i \in Intervals}

\* one stage after get_video_info misbehaves, on two identical frames
StageFaultEnvs ==
  {JobEnv(b, MeetsOk) :
     b \in {e \in Envs : /\ e.wrapper = "ok" /\ ~e.hang /\ e.info = "ok"
                         /\ e.frames = EnvOk.frames}}

\* the metadata call fails
InfoFaultEnvs ==
  {JobEnv(EnvOk, [MeetsOk EXCEPT !.yt_dlp = st]) :
     st \in {"CalledProcessError", "JSONDecodeError", "OSError"}}
  \cup {JobEnv(EnvOk, [MeetsOk EXCEPT !.yt_secs = InfoTimeout + 1])}

\* the duration probe or one ffmpeg call fails
CaptureFaultEnvs ==
  {JobEnv(b, [MeetsOk EXCEPT !.probe = "fail"]) : b \in {EnvOk, EnvCleanupRaise}}
  \cup {JobEnv(b, [MeetsOk EXCEPT !.duration = MaxGrid * TicksPerSecond,
                                  !.contents = UniqueFrameContents,
                                  !.fail_at = k]) :
          b \in {EnvOk, EnvCleanupRaise}, k \in {1, 3, MaxGrid + 1}}

\* image files an earlier run, or another job with the same sanitized title,
\* left in the images directory
StaleDirs ==
  {output_file(0, "high") :> 9,
   output_file(0, "highest") :> 9,
   output_file(9999, "high") :> 9,
   (output_file(1, "highest") :> 3) @@ (output_file(9999, "highest") :> 9)}

StaleEnvs ==
  {JobEnv(b, [MeetsOk EXCEPT !.stale = s, !.quality = q,
                             !.duration = 3 * TicksPerSecond,
                             !.contents = SecondAndFourthSame]) :
     b \in {EnvOk, [EnvOk EXCEPT !.locked = {4}]}, s \in StaleDirs, q \in Qualities}

\* other settings of the processor
ParamEnvs ==
  {JobEnv(b, [MeetsOk EXCEPT !.params = p]) :
     b \in {EnvOk, EnvPdfFails, EnvCopyRaise},
     p \in {[processor_params EXCEPT !.no_pdf = TRUE],
            [processor_params EXCEPT !.keep_video = FALSE],
            [processor_params EXCEPT !.no_transcript = TRUE]}}

\* jobs that differ in the caption files present, in whether the conversion
\* works and in whether transcripts are wanted
CaptionEnvs ==
  {JobEnv(EnvOk, [MeetsOk EXCEPT !.captions = cs, !.convert = cv,
                                 !.params.no_transcript = nt]) :
     cs \in SUBSET Range(subtitle_patterns), cv \in {"ok", "fail"},
     nt \in BOOLEAN}

\* jobs that differ in the title yt-dlp reports
TitleEnvs ==
  {JobEnv(EnvOk, [MeetsOk EXCEPT !.title = t]) :
     t \in ShortTitles(MaxTitle) \cup LongTitles}

JobEnvs ==
  GridEnvs \cup StageFaultEnvs \cup InfoFaultEnvs \cup CaptureFaultEnvs
    \cup StaleEnvs \cup ParamEnvs \cup TitleEnvs \cup CaptionEnvs

\* process_video entered: result as created, nothing called yet
NewJob(e) ==
  [pc |-> "get_video_info",
   result |-> NewResult(Url(1), 1),
   exc |-> None,             \* the exception on its way to the except clause
   returning |-> FALSE,      \* "return result" was run inside the with-block
   workspace |-> "none",     \* the TemporaryDirectory: none, exists, removed
   safe_title |-> <<>>,      \* sanitize_filename(video_info['title'])
   dirs_made |-> FALSE,      \* images_dir.mkdir(parents=True) was done
   converted |-> <<>>,       \* the caption files handed to the conversion
   transcript_file |-> FALSE, \* the text file of the transcript is written
   images_dir |-> e.stale,   \* file name -> content, Absent once deleted
   calls |-> <<>>,           \* the stage calls made, in order
   ffmpeg_ss |-> <<>>,       \* the -ss value of each ffmpeg call made
   current_time |-> 0,
   screenshot_files |-> <<>>,
   deduplicated |-> FALSE,   \* remove_duplicates has returned
   duplicates |-> 0,         \* what it returned
   pages |-> <<>>]           \* the pages of the document written

\* the paths at the given positions of the capture list
Paths(positions) ==
  {job.screenshot_files[i] : i \in positions \cap DOMAIN job.screenshot_files}

InitJob ==
  /\ BatchIdle
  /\ DedupIdle
  /\ jenv \in JobEnvs
  /\ job = NewJob(jenv)

\* only the run moves
JobFrame == UNCHANGED <<jenv, batch_vars, dedup_vars>>

\* video_info = self.get_video_info(url); if not video_info: ... return result
GetVideoInfo ==
  /\ job.pc = "get_video_info"
  /\ LET video_info == get_video_info(jenv.yt_dlp, jenv.yt_secs)
         j == [job EXCEPT !.calls = Append(@, "get_video_info")]
     IN job' =
          IF video_info = "raise"
          THEN [j EXCEPT !.exc = ExcText(jenv, "get_video_info"), !.pc = "except"]
          ELSE IF video_info = "none"
          THEN [j EXCEPT !.result.error = "Failed to get video info",
                         !.pc = "returned"]
          ELSE [j EXCEPT !.pc = "mkdir"]
  /\ JobFrame

\* "Setup directories": images_dir.mkdir(parents=True, exist_ok=True)
MakeDirs ==
  /\ job.pc = "mkdir"
  /\ LET j == [job EXCEPT
                !.safe_title = sanitize_filename(jenv.title, DefaultMaxLength),
                !.calls = Append(@, "mkdir")]
     IN job' =
          IF jenv.mkdir = "raise"
          THEN [j EXCEPT !.exc = ExcText(jenv, "mkdir"), !.pc = "except"]
          ELSE [j EXCEPT !.dirs_made = TRUE, !.pc = "TemporaryDirectory"]
  /\ JobFrame

\* with tempfile.TemporaryDirectory() as temp_dir:
EnterWorkspace ==
  /\ job.pc = "TemporaryDirectory"
  /\ job' = [job EXCEPT !.calls = Append(@, "TemporaryDirectory"),
                        !.workspace = "exists",
                        !.pc = "download_video"]
  /\ JobFrame

\* A mutant of Download: the return after a failed download leaves
\* process_video at once, without leaving the with-block.
MutDownloadReturnSkipsExit ==
  /\ job.pc = "download_video"
  /\ LET j == [job EXCEPT !.calls = Append(@, "download_video")]
     IN job' =
          IF jenv.download = "raise"
          THEN [j EXCEPT !.exc = ExcText(jenv, "download_video"), !.pc = "exit"]
          ELSE IF jenv.download = "fail"
          THEN [j EXCEPT !.result.error = "Failed to download video",
                         !.pc = "returned"]
          ELSE LET dl == download_video(jenv.captions, jenv.convert,
                                        jenv.params.no_transcript)
               IN [j EXCEPT !.result.transcript_saved = dl.transcript_found,
                            !.converted = dl.converted,
                            !.transcript_file = dl.written,
                            !.pc = "ffprobe"]
  /\ JobFrame

\* "Download video" up to result['transcript_saved'] = transcript_success
Download ==
  /\ job.pc = "download_video"
  /\ LET j == [job EXCEPT !.calls = Append(@, "download_video")]
     IN job' =
          IF jenv.download = "raise"
          THEN [j EXCEPT !.exc = ExcText(jenv, "download_video"), !.pc = "exit"]
          ELSE IF jenv.download = "fail"
          THEN [j EXCEPT !.result.error = "Failed to download video",
                         !.returning = TRUE, !.pc = "exit"]
          ELSE LET dl == download_video(jenv.captions, jenv.convert,
                                        jenv.params.no_transcript)
               IN [j EXCEPT !.result.transcript_saved = dl.transcript_found,
                            !.converted = dl.converted,
                            !.transcript_file = dl.written,
                            !.pc = "ffprobe"]
  /\ JobFrame

\* extract_screenshots up to the loop: makedirs, ffprobe, float(); an error
\* makes it return []
ProbeDuration ==
  /\ job.pc = "ffprobe"
  /\ LET j == [job EXCEPT !.calls = Append(@, "extract_screenshots")]
     IN job' =
          IF jenv.probe = "fail" THEN [j EXCEPT !.pc = "no_screenshots"]
          ELSE [j EXCEPT !.current_time = 0, !.pc = "ffmpeg"]
  /\ JobFrame

\* A mutant of ExtractFrame: a failing ffmpeg call ends the loop and the
\* frames extracted so far are handed on.
MutExtractFrameSalvagesPartial ==
  /\ job.pc = "ffmpeg"
  /\ LoopContinues(job.current_time, jenv.duration)
  /\ LET k == Len(job.ffmpeg_ss) + 1
         file == output_file(job.current_time, jenv.quality)
         j == [job EXCEPT !.ffmpeg_ss = Append(@, job.current_time)]
     IN job' =
          IF k = jenv.fail_at
          THEN [j EXCEPT !.pc = IF job.screenshot_files # <<>>
                                THEN "remove_duplicates" ELSE "no_screenshots"]
          ELSE [j EXCEPT !.images_dir = (file :> jenv.contents[k]) @@ @,
                         !.screenshot_files = Append(@, file),
                         !.current_time = @ + jenv.interval]
  /\ JobFrame

\* one pass of the loop of extract_screenshots: ffmpeg -ss current_time -y
\* output_file; a failing call raises, and extract_screenshots returns []
ExtractFrame ==
  /\ job.pc = "ffmpeg"
  /\ LoopContinues(job.current_time, jenv.duration)
  /\ LET k == Len(job.ffmpeg_ss) + 1
         file == output_file(job.current_time, jenv.quality)
         j == [job EXCEPT !.ffmpeg_ss = Append(@, job.current_time)]
     IN job' =
          IF k = jenv.fail_at
          THEN [j EXCEPT !.screenshot_files = <<>>, !.pc = "no_screenshots"]
          ELSE [j EXCEPT !.images_dir = (file :> jenv.contents[k]) @@ @,
                         !.screenshot_files = Append(@, file),
                         !.current_time = @ + jenv.interval]
  /\ JobFrame

\* the loop ends, return screenshot_files; "if screenshot_files:"
ExtractReturn ==
  /\ job.pc = "ffmpeg"
  /\ ~LoopContinues(job.current_time, jenv.duration)
  /\ job' = [job EXCEPT !.pc = IF job.screenshot_files # <<>>
                               THEN "remove_duplicates" ELSE "no_screenshots"]
  /\ JobFrame

\* A mutant of RemoveDuplicates: the number of files captured is recorded,
\* the duplicates removed are not taken off.
MutRemoveDuplicatesRecordsCaptured ==
  /\ job.pc = "remove_duplicates"
  /\ LET dd == remove_duplicates(job.screenshot_files, job.images_dir,
                                 Paths(jenv.locked), Paths(jenv.unreadable))
         j == [job EXCEPT !.calls = Append(@, "remove_duplicates")]
     IN job' =
          IF dd.raised
          THEN [j EXCEPT !.exc = ExcText(jenv, "remove_duplicates"), !.pc = "exit"]
          ELSE [j EXCEPT !.images_dir = dd.disk,
                         !.deduplicated = TRUE,
                         !.duplicates = dd.removed,
                         !.result.screenshots = Len(job.screenshot_files),
                         !.pc = IF jenv.params.no_pdf
                                THEN "keep_video" ELSE "create_pdf"]
  /\ JobFrame

\* duplicates = self.remove_duplicates(screenshot_files);
\* result['screenshots'] = len(screenshot_files) - duplicates
RemoveDuplicates ==
  /\ job.pc = "remove_duplicates"
  /\ LET dd == remove_duplicates(job.screenshot_files, job.images_dir,
                                 Paths(jenv.locked), Paths(jenv.unreadable))
         j == [job EXCEPT !.calls = Append(@, "remove_duplicates")]
     IN job' =
          IF dd.raised
          THEN [j EXCEPT !.exc = ExcText(jenv, "remove_duplicates"), !.pc = "exit"]
          ELSE [j EXCEPT !.images_dir = dd.disk,
                         !.deduplicated = TRUE,
                         !.duplicates = dd.removed,
                         !.result.screenshots =
                           Len(job.screenshot_files) - dd.removed,
                         !.pc = IF jenv.params.no_pdf
                                THEN "keep_video" ELSE "create_pdf"]
  /\ JobFrame

\* A mutant of KeepVideo: the job is marked successful before the source
\* media is copied.
MutKeepVideoSuccessFirst ==
  /\ job.pc = "keep_video"
  /\ job' =
       IF jenv.params.keep_video /\ jenv.copy = "raise"
       THEN [job EXCEPT !.calls = Append(@, "copy2"),
                        !.result.success = TRUE,
                        !.exc = ExcText(jenv, "copy2"), !.pc = "exit"]
       ELSE [job EXCEPT !.calls = IF jenv.params.keep_video
                                  THEN Append(@, "copy2") ELSE @,
                        !.result.success = TRUE,
                        !.pc = "exit"]
  /\ JobFrame

\* A mutant of CreatePdf: a document that cannot be assembled raises.
MutCreatePdfFailureRaises ==
  /\ job.pc = "create_pdf"
  /\ LET images == pdf_images(job.images_dir, Paths(jenv.unreadable))
         created == create_pdf(jenv, jenv.params) /\ images # <<>>
         j == [job EXCEPT !.calls = Append(@, "create_pdf")]
     IN job' =
          IF created
          THEN [j EXCEPT !.pages = images, !.result.pdf_created = TRUE,
                         !.pc = "keep_video"]
          ELSE [j EXCEPT !.exc = ExcText(jenv, "create_pdf"), !.pc = "exit"]
  /\ JobFrame

\* result['pdf_created'] = self.create_pdf(images_dir, pdf_path)
CreatePdf ==
  /\ job.pc = "create_pdf"
  /\ LET images == pdf_images(job.images_dir, Paths(jenv.unreadable))
         created == create_pdf(jenv, jenv.params) /\ images # <<>>
     IN job' = [job EXCEPT !.calls = Append(@, "create_pdf"),
                           !.pages = IF created THEN images ELSE <<>>,
                           !.result.pdf_created = created,
                           !.pc = "keep_video"]
  /\ JobFrame

\* "Keep video if requested" and result['success'] = True
KeepVideo ==
  /\ job.pc = "keep_video"
  /\ job' =
       IF jenv.params.keep_video /\ jenv.copy = "raise"
       THEN [job EXCEPT !.calls = Append(@, "copy2"),
                        !.exc = ExcText(jenv, "copy2"), !.pc = "exit"]
       ELSE [job EXCEPT !.calls = IF jenv.params.keep_video
                                  THEN Append(@, "copy2") ELSE @,
                        !.result.success = TRUE,
                        !.pc = "exit"]
  /\ JobFrame

\* else: result['error'] = "No screenshots extracted"
NoScreenshots ==
  /\ job.pc = "no_screenshots"
  /\ job' = [job EXCEPT !.result.error = "No screenshots extracted",
                        !.pc = "exit"]
  /\ JobFrame

\* TemporaryDirectory.__exit__ on every way out of the with-block: the
\* workspace is removed; a removal that raises leaves it behind and replaces
\* whatever the block was doing
ExitWorkspace ==
  /\ job.pc = "exit"
  /\ LET j == [job EXCEPT !.calls = Append(@, "cleanup")]
     IN job' =
          IF jenv.cleanup = "raise"
          THEN [j EXCEPT !.exc = ExcText(jenv, "cleanup"),
                         !.returning = FALSE, !.pc = "except"]
          ELSE [j EXCEPT !.workspace = "removed",
                         !.pc = IF job.exc # None THEN "except"
                                ELSE IF job.returning THEN "returned"
                                ELSE "finish"]
  /\ JobFrame

\* except Exception as e: result['error'] = str(e)
Except ==
  /\ job.pc = "except"
  /\ job' = [job EXCEPT !.result.error = job.exc, !.pc = "finish"]
  /\ JobFrame

\* result['duration'] = time.time() - start_time; return result
Return ==
  /\ job.pc = "finish"
  /\ job' = [job EXCEPT !.result.duration = jenv.secs, !.pc = "returned"]
  /\ JobFrame

NextJob ==
  \/ GetVideoInfo
  \/ MakeDirs
  \/ EnterWorkspace
  \/ Download
  \/ ProbeDuration
  \/ ExtractFrame
  \/ ExtractReturn
  \/ RemoveDuplicates
  \/ CreatePdf
  \/ KeepVideo
  \/ NoScreenshots
  \/ ExitWorkspace
  \/ Except
  \/ Return

SpecJob == InitJob /\ [][NextJob]_vars

\* The run followed statement by statement returns what process_video, read
\* as one function of the environment, returns.
StepsAgreeWithProcessVideo ==
  job.pc = "returned" =>
    job.result = process_video(Url(1), 1, jenv, jenv.params)

(***************************************************************************)
(* The output subtree of the jobs of a batch ("Setup directories")         *)
(***************************************************************************)
\* info.get('title'): the title yt-dlp reports for the i-th video; the first
\* and the third differ only in characters sanitize_filename takes out
TitleOfVideo(i) ==
  IF i = 1 THEN <<" ", "a", ":", "b", ".">>
  ELSE IF i = 3 THEN <<"a", "b">>
  ELSE <<"v", " ", DigitChar(i)>>

VideoTitle(url) == TitleOfVideo(CHOOSE i \in 1..MaxUrls : Url(i) = url)

\* video_dir = Path(self.output_dir) / safe_title
video_dir(url) == <<"output_dir", sanitize_filename(VideoTitle(url), DefaultMaxLength)>>

\* images_dir = video_dir / 'images'
images_dir(url) == video_dir(url) \o <<"images">>

(***************************************************************************)
(* Claims about the batch run (Spec)                                       *)
(***************************************************************************)
BatchDone == pc = "done" /\ N > 1

Records == {results[i] : i \in 1..Len(results)}

\* the indices of the records that carry job id j
RecordsOf(j) == {i \in 1..Len(results) : Get(results[i], "job_id", None) = j}

\* the record was built in the except branch of the collecting loop
IsExceptRecord(r) == "url" \notin DOMAIN r

\* the environment of the run that produced record r
EnvOf(r) == env[r.job_id]

\* C1: once process_parallel has finished a batch of N URLs, results holds
\* exactly N records and the summary's successful count plus failed count is
\* N, whatever the jobs did (succeeded, returned a failure, raised).
C1_SummaryAccountsForAll ==
  BatchDone =>
    /\ Len(results) = N
    /\ summary.total = N
    /\ summary.successful + summary.failed = N
    /\ summary.successful =
         Cardinality({i \in 1..Len(results) : results[i].success})
    /\ summary.failed = Len(summary.failed_videos)

C1_Witness ==
  /\ BatchDone
  /\ \E r \in Records : IsExceptRecord(r)
  /\ \E r \in Records : r.success
  /\ summary.successful = 1 /\ summary.failed = N - 1

\* C2: after process_parallel has collected all jobs, every input URL is the
\* url of exactly one result record: for each position p of the input there
\* is exactly one record of job p and its url is urls[p], also when the record
\* was built in the except branch.
C2_EveryUrlInOneRecord ==
  BatchDone =>
    \A p \in 1..N :
      /\ Cardinality(RecordsOf(p)) = 1
      /\ \A i \in RecordsOf(p) : Get(results[i], "url", None) = urls[p]

\* C3: a job whose run lasts longer than the 600 s ceiling is recorded as a
\* failed result carrying a timeout error.
C3_SlowJobRecordedAsTimeout ==
  N > 1 =>
    \A r \in Records :
      EnvOf(r).secs > JobTimeout => (~r.success /\ r.error = "TimeoutError")

\* whether a run in environment e ends successful, read off the stages
RunSucceeds(e) ==
  /\ e.wrapper = "ok" /\ e.info = "ok" /\ e.mkdir = "ok" /\ e.download = "ok"
  /\ e.frames # <<>> /\ e.unreadable = {}
  /\ (processor_params.keep_video => e.copy = "ok")

\* the number of files a run in environment e leaves after deduplication
UniqueFrames(e) ==
  Cardinality({i \in 1..Len(e.frames) :
                 \A k \in 1..(i - 1) : e.frames[k] # e.frames[i]})

Hung == {p \in DOMAIN fstate : fstate[p] = "running" /\ env[p].hang}

\* every job is collected, except those that hang
AllOthersCollected ==
  pc = "done" \/ (pc = "pool" /\ \A p \in 1..N : p \in yielded \/ p \in Hung)

C5_BoundedPool ==
  /\ [](Cardinality(Running) <= num_workers)
  /\ [][\A p \in DOMAIN fstate :
          (pc = "pool" /\ fstate[p] = "pending" /\ fstate'[p] = "running")
            => /\ Cardinality(Running) < num_workers
               /\ Cardinality({q \in DOMAIN fstate : fstate[q] = "finished"})
                    >= p - num_workers]_vars

C5_Witness ==
  /\ pc = "pool"
  /\ Cardinality(Running) = num_workers
  /\ \E p \in 1..N : fstate[p] = "finished"
  /\ \E p \in 1..N : p > num_workers /\ fstate[p] = "running"

\* C6: without a worker override (--workers <= 0) the pool size used for a
\* batch of N URLs is min(number of CPUs, N); with a positive override it is
\* the override.
C6_DefaultPoolSizeCappedAtN ==
  (pc # "main" /\ N > 1) =>
    num_workers = IF workers > 0 THEN workers ELSE Min(cpu_count, N)

\* C7: one job per position i of the input, with job id i and the URL at
\* position i (also for repeated URLs); each collected record carries the id
\* of the job that produced it, in every completion order, so that the job
\* ids of the results are exactly 1..N at the end.
C7_JobIdsByPosition ==
  /\ [](N > 1 =>
         /\ \A p \in 1..N :
              /\ job_args(urls)[p].job_id = p
              /\ job_args(urls)[p].url = urls[p]
              /\ futures(urls)[p] = p
         /\ \A i, k \in 1..Len(results) :
              i # k => results[i].job_id # results[k].job_id
         /\ BatchDone => {r.job_id : r \in Records} = 1..N)
  /\ [][\A p \in DOMAIN fstate :
          (p \notin yielded /\ p \in yielded')
            => /\ Len(results') = Len(results) + 1
               /\ results'[Len(results')].job_id = p
               /\ ~IsExceptRecord(results'[Len(results')])
                    => results'[Len(results')].url = urls[p]]_vars

C7_Witness ==
  /\ BatchDone
  /\ urls[1] = urls[N]
  /\ results[1].job_id = N /\ results[N].job_id = 1
  /\ \E r \in Records : IsExceptRecord(r)

\* a stage of the run in environment e failed (any stage, document assembly
\* and the deletion of a duplicate included)
AnyStageFails(e) ==
  \/ e.info # "ok" \/ e.mkdir # "ok" \/ e.download # "ok" \/ e.frames = <<>>
  \/ e.unreadable # {} \/ e.locked # {} \/ ~e.pdf
  \/ (processor_params.keep_video /\ e.copy # "ok")

\* a stage failed other than the two whose failure the stage itself absorbs
\* (create_pdf returning False, a duplicate that cannot be deleted)
FatalStageFails(e) ==
  \/ e.info # "ok" \/ e.mkdir # "ok" \/ e.download # "ok" \/ e.frames = <<>>
  \/ e.unreadable # {}
  \/ (processor_params.keep_video /\ e.copy # "ok")

\* the records process_video returned, each with the environment of its run
Returns ==
  {<<r, env[r.job_id]>> : r \in {x \in Records : ~IsExceptRecord(x)}}

\* C8 as stated: process_video lets no stage error escape, and for every
\* failure of metadata fetch, acquisition, capture, dedup, assembly, retention
\* copy or directory creation it returns success = false with a non-empty
\* error.
C8_EveryStageFailureFailsTheJob ==
  /\ \A p \in DOMAIN fut :
       (fut[p].kind = "exception") => env[p].wrapper = "raise"
  /\ \A x \in Returns :
       AnyStageFails(x[2]) => (~x[1].success /\ x[1].error \notin {None, ""})

\* C8 as amended: no stage error escapes process_video (a future holds an
\* exception only when the wrapper raised outside it); a failure of metadata
\* fetch, directory creation, acquisition, capture, reading a file for
\* deduplication or the retention copy gives success = false with an error
\* set (the text of the exception, which may be empty); a document that cannot be assembled or a duplicate that cannot be
\* deleted leaves the job successful (pdf_created false in the first case);
\* and the batch still collects one record per job.
C8_FatalStageFailureFailsTheJob ==
  /\ \A p \in DOMAIN fut :
       (fut[p].kind = "exception") => env[p].wrapper = "raise"
  /\ \A x \in Returns :
       /\ FatalStageFails(x[2]) => (~x[1].success /\ x[1].error # None)
       /\ ~FatalStageFails(x[2]) => x[1].success
       /\ (~FatalStageFails(x[2]) /\ ~x[2].pdf) => ~x[1].pdf_created
  /\ BatchDone => Len(results) = N

C8_Witness ==
  /\ BatchDone
  /\ \E x \in Returns : x[2] = EnvCopyRaise /\ ~x[1].success
  /\ \E x \in Returns : x[2] = EnvPdfFails /\ x[1].success
  /\ results[1].success = FALSE

\* C9: in a batch where exactly the jobs of F fail at metadata fetch and all
\* others complete every stage, the summary reports N - |F| successes and |F|
\* failures, and the failure entries are exactly the jobs of F, each once,
\* with its job id, its URL and the metadata-fetch error.
MetadataFailed == {p \in 1..N : env[p] = EnvInfoNone}

C9_MetadataFailuresReported ==
  (BatchDone /\ \A p \in 1..N : env[p] \in {EnvOk, EnvSlow, EnvInfoNone}) =>
    /\ summary.successful = N - Cardinality(MetadataFailed)
    /\ summary.failed = Cardinality(MetadataFailed)
    /\ Len(summary.failed_videos) = Cardinality(MetadataFailed)
    /\ {x.job_id : x \in Range(summary.failed_videos)} = MetadataFailed
    /\ \A x \in Range(summary.failed_videos) :
         /\ x.url = urls[x.job_id]
         /\ x.error = "Failed to get video info"

C9_Witness ==
  /\ BatchDone /\ N = 2
  /\ env[1] = EnvOk /\ env[2] = EnvInfoNone
  /\ summary.successful = 1 /\ summary.failed = 1
  /\ summary.failed_videos[1].job_id = 2
  /\ summary.failed_videos[1].url = urls[2]

(***************************************************************************)
(* Claims about deduplication (SpecDedup)                                  *)
(***************************************************************************)
\* every listed file exists, can be read and can be deleted
FaultFree ==
  /\ locked = {} /\ unreadable = {}
  /\ \A p \in DOMAIN orig_disk : orig_disk[p] # Absent

\* position i holds the first file of its byte-content class
FirstOfClass(i) == \A k \in 1..(i - 1) : orig_disk[k] # orig_disk[i]

\* C10: after deduplication of a capture sequence (by either function) the
\* files left on disk are exactly the earliest file of each byte-content
\* class, each with its content unchanged: every later byte-identical file is
\* gone, and no two survivors have equal content.
C10_FirstOccurrenceSurvives ==
  (dedup_fn # "none" /\ FaultFree) =>
    \A i \in DOMAIN orig_disk :
      /\ Exists(disk, i) <=> FirstOfClass(i)
      /\ Exists(disk, i) => disk[i] = orig_disk[i]

\* C11: deduplication (either function) removes a file only if an earlier
\* file of the list has the same SHA-256 fingerprint: files whose bytes
\* differ are never merged, even when they decode to the same pixels.
C11_RemovedOnlyIfEarlierSameFingerprint ==
  dedup_fn # "none" =>
    \A i \in DOMAIN orig_disk :
      (Exists(orig_disk, i) /\ ~Exists(disk, i)) =>
        \E k \in 1..(i - 1) :
          /\ Exists(orig_disk, k)
          /\ Sha256(orig_disk[k]) = Sha256(orig_disk[i])

\* C12: deduplication is idempotent.  A further call with the same list on
\* the files left by the call before deletes no file and returns 0 (it raises
\* exactly when the call before raised, on the same unreadable file), for
\* every list, also with several classes of duplicates, with missing files
\* and with duplicates that could not be deleted.
C12_SecondCallRemovesNothing ==
  \A c \in 2..Len(dedup_returns) :
    /\ dedup_returns[c].disk = dedup_returns[c - 1].disk
    /\ dedup_returns[c].raised = dedup_returns[c - 1].raised
    /\ ~dedup_returns[c].raised => dedup_returns[c].removed = 0

C12_Witness ==
  /\ Len(dedup_returns) = 2
  /\ Len(screenshot_files) = 4
  /\ orig_disk[1] = orig_disk[3] /\ orig_disk[2] = orig_disk[4]
  /\ orig_disk[1] # orig_disk[2]
  /\ dedup_returns[1].removed = 2 /\ dedup_returns[2].removed = 0
  /\ ~Exists(disk, 3) /\ ~Exists(disk, 4)

(***************************************************************************)
(* Claims about one run of process_video (SpecJob)                         *)
(***************************************************************************)
\* extract_screenshots has been called and has returned
ExtractionReturned ==
  /\ "extract_screenshots" \in Range(job.calls)
  /\ job.pc \notin {"ffprobe", "ffmpeg"}

\* the listed files that are on disk
Surviving == {f \in Range(job.screenshot_files) : Exists(job.images_dir, f)}

CaptureFailed ==
  /\ job.pc # "off"
  /\ "extract_screenshots" \in Range(job.calls)
  /\ jenv.probe = "fail" \/ jenv.fail_at \in 1..Len(job.ffmpeg_ss)

\* C14: once the duration probe or any single ffmpeg call has failed, the
\* capture list is empty however many frames were extracted before, none of
\* remove_duplicates, create_pdf and the retention copy is ever called, and
\* the job returns success = false with the capture error "No screenshots
\* extracted" (only a removal of the workspace that raises afterwards puts
\* its own text in place of that error; success stays false).
C14_CaptureFailureFailsJob ==
  CaptureFailed =>
    /\ job.screenshot_files = <<>>
    /\ Range(job.calls) \cap {"remove_duplicates", "create_pdf", "copy2"} = {}
    /\ ~job.result.success
    /\ job.result.screenshots = 0 /\ ~job.result.pdf_created /\ job.pages = <<>>
    /\ job.pc = "returned" =>
         job.result.error = IF jenv.cleanup = "raise"
                            THEN ExcText(jenv, "cleanup")
                            ELSE "No screenshots extracted"

C14_Witness ==
  /\ job.pc = "returned" /\ CaptureFailed
  /\ jenv.fail_at = 3 /\ Len(job.ffmpeg_ss) = 3
  /\ Cardinality({f \in DOMAIN job.images_dir : Exists(job.images_dir, f)}) = 2
  /\ job.result.error = "No screenshots extracted"

\* the metadata call fails: tool error, malformed JSON or the 30 s timeout
MetadataFetchFails ==
  /\ job.pc # "off"
  /\ \/ jenv.yt_secs > InfoTimeout
     \/ jenv.yt_dlp \in {"CalledProcessError", "JSONDecodeError"}

\* C15: when the metadata fetch fails (tool error, malformed JSON, timeout of
\* 30 s), the job returns failed with "Failed to get video info" straight
\* from the call: no output directory and no workspace is ever created, the
\* images directory is left as it was, and no call other than get_video_info
\* is made.
C15_MetadataFailureStopsJob ==
  MetadataFetchFails =>
    /\ job.pc \in {"get_video_info", "returned"}
    /\ Range(job.calls) \subseteq {"get_video_info"}
    /\ job.workspace = "none" /\ ~job.dirs_made
    /\ job.images_dir = jenv.stale /\ job.ffmpeg_ss = <<>>
    /\ job.pc = "returned" =>
         /\ ~job.result.success
         /\ job.result.error = "Failed to get video info"
         /\ job.result.screenshots = 0 /\ ~job.result.pdf_created

C15_Witness ==
  /\ job.pc = "returned"
  /\ jenv.yt_dlp = "ok" /\ jenv.yt_secs > InfoTimeout
  /\ job.calls = <<"get_video_info">>
  /\ job.result.error = "Failed to get video info"

\* create_pdf was called and no document was made
AssemblyFailed ==
  /\ job.pc # "off"
  /\ "create_pdf" \in Range(job.calls)
  /\ ~job.result.pdf_created

\* C16: create_pdf is only called after metadata fetch, acquisition and
\* capture have succeeded; when it fails (returns False) the job goes on to
\* the retention step with the capture count as recorded and no exception,
\* and, the retention copy and the removal of the workspace working, it
\* returns success = true, pdf_created = false, error unset and as capture
\* count the number of listed files left on disk.
C16_AssemblyFailureKeepsSuccess ==
  /\ [](AssemblyFailed =>
          /\ jenv.info = "ok" /\ jenv.download = "ok" /\ jenv.frames # <<>>
          /\ job.result.screenshots = Cardinality(Surviving)
          /\ (job.pc = "returned" /\ jenv.copy = "ok" /\ jenv.cleanup = "ok")
               => /\ job.result.success
                  /\ ~job.result.pdf_created
                  /\ job.result.error = None)
  /\ [][job.pc = "create_pdf" =>
          /\ job'.pc = "keep_video"
          /\ job'.exc = None
          /\ job'.result.screenshots = job.result.screenshots
          /\ job'.result.error = None]_vars

C16_Witness ==
  /\ job.pc = "returned" /\ AssemblyFailed
  /\ jenv.params.keep_video
  /\ job.result.success /\ job.result.error = None
  /\ job.result.screenshots = 1

\* the position of a file in the capture list
PositionOf(f) ==
  CHOOSE k \in DOMAIN job.screenshot_files : job.screenshot_files[k] = f

\* C17: the pages of the document are in ascending capture-timestamp order
\* (the order of the capture list), for every duration and interval,
\* timestamps of 10000 s and more included.
C17_PagesInTimestampOrder ==
  job.pc # "off" =>
    \A a, b \in 1..Len(job.pages) :
      (/\ a < b
       /\ job.pages[a] \in Range(job.screenshot_files)
       /\ job.pages[b] \in Range(job.screenshot_files))
        => PositionOf(job.pages[a]) < PositionOf(job.pages[b])

\* C18: the document has one page for each file of the capture list that
\* survived deduplication and no other page, so that its page count is the
\* recorded capture count, also when the images directory held image files
\* before the job started.
C18_OnePagePerSurvivingArtifact ==
  (job.pc # "off" /\ job.result.pdf_created) =>
    /\ Range(job.pages) = Surviving
    /\ Len(job.pages) = job.result.screenshots

\* C20: a run that has left the with-block (it is in the except clause, at
\* the final statements or has returned) after creating a workspace has had
\* the removal of the workspace run, on every way out (success, failed
\* download, failed capture, an exception in any stage), and the workspace
\* is gone unless that removal itself raised.
C20_WorkspaceRemovedAtReturn ==
  (/\ job.pc \in {"except", "finish", "returned"}
   /\ "TemporaryDirectory" \in Range(job.calls)) =>
    /\ "cleanup" \in Range(job.calls)
    /\ jenv.cleanup = "ok" => job.workspace = "removed"
    /\ jenv.cleanup = "ok" => job.calls[Len(job.calls)] = "cleanup"

C20_Witness ==
  /\ job.pc = "returned"
  /\ jenv.copy = "raise" /\ "copy2" \in Range(job.calls)
  /\ job.workspace = "removed"
  /\ ~job.result.success

\* the title of the job has been sanitized
TitleSanitized == job.pc # "off" /\ "mkdir" \in Range(job.calls)

\* C23: whatever the title, sanitize_filename returns a non-empty string of
\* at most max_length characters that holds none of < > : " / \ | ? * and
\* neither starts nor ends with a dot or a blank.
C23_SanitizedTitleWellFormed ==
  TitleSanitized =>
    LET name == job.safe_title IN
    /\ name # <<>>
    /\ Len(name) <= DefaultMaxLength
    /\ Range(name) \cap invalid_chars = {}
    /\ Head(name) \notin {".", " "}
    /\ name[Len(name)] \notin {".", " "}

\* C21: on every way out of process_video (metadata failure, failed
\* download, failed capture, exception, success) the returned record's
\* duration is the time measured from entry to exit, never the initial 0.
C21_ElapsedTimeSetOnEveryExit ==
  job.pc = "returned" =>
    (job.result.duration = jenv.secs /\ job.result.duration # 0)

\* remove_duplicates has returned in this run
DedupReturned == job.pc # "off" /\ job.deduplicated

\* floor(D / I) + 1 for the duration and interval of this run
GridSize == (jenv.duration \div (jenv.interval * TicksPerSecond)) + 1

\* C25 as stated: the source media is copied if and only if retention is
\* configured and the job passed capture with at least one artifact.
C25_RetentionCopyAsStated ==
  job.pc = "returned" =>
    (("copy2" \in Range(job.calls)) <=>
       (jenv.params.keep_video /\ job.screenshot_files # <<>>))

\* C25 as amended: the source media is copied (shutil.copy2 is called) exactly
\* in the runs with keep_video in which capture handed on at least one file
\* and remove_duplicates returned without raising; the copy is called before the workspace is
\* removed; and when the copy fails the job returns success = false with the
\* error set, although the captures are counted and the document, if it
\* could be made, is recorded as created.
C25_RetentionCopy ==
  /\ job.pc # "off" =>
       \A i, k \in 1..Len(job.calls) :
         (job.calls[i] = "copy2" /\ job.calls[k] = "cleanup") => i < k
  /\ job.pc \in {"exit", "except", "finish", "returned"} =>
       /\ ("copy2" \in Range(job.calls)) <=>
            (/\ jenv.params.keep_video
             /\ job.screenshot_files # <<>>
             /\ DedupReturned)
       /\ ("copy2" \in Range(job.calls) /\ jenv.copy = "raise") =>
            /\ ~job.result.success
            /\ job.result.screenshots >= 1
            /\ job.result.pdf_created = (jenv.pdf /\ ~jenv.params.no_pdf)
            /\ job.pc = "returned" => job.result.error # None

C25_Witness ==
  /\ job.pc = "returned"
  /\ jenv.params.keep_video /\ jenv.copy = "raise"
  /\ job.calls[Len(job.calls) - 1] = "copy2"
  /\ job.calls[Len(job.calls)] = "cleanup"
  /\ job.result.pdf_created /\ job.result.screenshots = 1
  /\ ~job.result.success

\* download_video has returned (True, ...)
Acquired ==
  /\ job.pc # "off"
  /\ "download_video" \in Range(job.calls)
  /\ jenv.download = "ok"

\* no recognized caption file is in the workspace, or transcripts are skipped
NoCaption == jenv.captions = {} \/ jenv.params.no_transcript

\* the order in which the recognized caption files are preferred
CaptionOrder == <<".en.srt", ".en.vtt", ".srt", ".vtt">>

\* C26: after a successful download with no recognized caption file in the
\* workspace, or with transcripts skipped, transcript_saved is false, nothing
\* is converted, the job goes on to capture with no error, and it ends as
\* the same job with a caption file ends; with one or more recognized caption
\* files exactly one is converted, the first present in the order .en.srt,
\* .en.vtt, .srt, .vtt.
C26_MissingCaptionsNotAnError ==
  /\ (Acquired /\ NoCaption) =>
       /\ ~job.result.transcript_saved
       /\ job.converted = <<>>
       /\ job.calls[Len(job.calls)] = "download_video" =>
            (job.pc = "ffprobe" /\ job.result.error = None /\ job.exc = None)
       /\ job.pc = "returned" =>
            LET with_caption == process_video(Url(1), 1,
                                  [jenv EXCEPT !.transcript = TRUE],
                                  [jenv.params EXCEPT !.no_transcript = FALSE])
            IN /\ "extract_screenshots" \in Range(job.calls)
               /\ job.result.success = with_caption.success
               /\ job.result.error = with_caption.error
  /\ (Acquired /\ ~NoCaption) =>
       /\ Len(job.converted) = 1
       /\ \E i \in 1..Len(CaptionOrder) :
            /\ job.converted[1] = CaptionOrder[i]
            /\ CaptionOrder[i] \in jenv.captions
            /\ \A k \in 1..(i - 1) : CaptionOrder[k] \notin jenv.captions

C26_Witness ==
  /\ job.pc = "returned"
  /\ jenv.captions = {}
  /\ ~jenv.params.no_transcript
  /\ "extract_screenshots" \in Range(job.calls)
  /\ job.result.success
  /\ ~job.result.transcript_saved

\* C29: transcript_saved is true only if the text file of the transcript was
\* written; after a failed conversion of the caption file found it is false.
C29_TranscriptFlagMeansFileWritten ==
  job.pc # "off" => (job.result.transcript_saved => job.transcript_file)

\* C27: once remove_duplicates has returned, result['screenshots'] is the
\* number of files of the capture list that are on disk, also when a
\* duplicate could not be deleted; for a job that returns successful the
\* count is at least 1 and at most floor(D / I) + 1.
C27_RecordedCountIsSurvivorCount ==
  DedupReturned =>
    /\ job.result.screenshots = Cardinality(Surviving)
    /\ job.result.screenshots =
         Len(job.screenshot_files) - job.duplicates
    /\ (job.pc = "returned" /\ job.result.success) =>
         (1 <= job.result.screenshots /\ job.result.screenshots <= GridSize)

C27_Witness ==
  /\ job.pc = "returned" /\ DedupReturned
  /\ jenv.locked # {} /\ jenv.duration = 3 * TicksPerSecond
  /\ job.duplicates = 0
  /\ job.result.screenshots = 4 /\ job.result.success

\* C28: a record returned by process_video never has success = true
\* together with a set error: no step after success = True, the removal of
\* the workspace included, attaches an error.
C28_NoErrorOnSuccessfulRecord ==
  job.pc # "off" => ~(job.result.success /\ job.result.error # None)

(***************************************************************************)
(* Claims about the output paths of concurrent jobs (Spec)                 *)
(***************************************************************************)
\* a run in environment e gets to "Setup directories" and beyond
UsesOutputSubtree(e) == e.wrapper = "ok" /\ e.info = "ok"

\* how far process_parallel has got: jobs started, jobs finished, records
\* collected, summary computed
PoolProgress ==
  Cardinality({p \in DOMAIN fstate : fstate[p] # "pending"})
    + Cardinality({p \in DOMAIN fstate : fstate[p] = "finished"})
    + Cardinality(yielded)
    + (IF summary # NoSummary THEN 1 ELSE 0)

\* C24: process_parallel computes its summary once, and only when a record
\* has been collected for every submitted job; nothing happens after it.
\* And it terminates when no run hangs: while no running job hangs, the pool
\* is never stuck (a job can start, finish or be collected, or the summary
\* can be computed), every step of the pool takes it one further of the
\* 3 * N + 1 steps a batch has, and the last of them is the summary.
C24_SummaryOnceAfterAllCollected ==
  /\ [](summary # NoSummary =>
          /\ pc = "done"
          /\ N > 1 /\ Len(results) = N /\ yielded = 1..N
          /\ \A p \in 1..N : fstate[p] = "finished"
          /\ summary = print_summary(results)
          /\ PoolProgress = 3 * N + 1)
  /\ []((pc = "pool" /\ Hung = {})
          => \/ ENABLED Summarize
             \/ ENABLED (\E p \in 1..N : Collect(p))
             \/ ENABLED (\E p \in 1..N : Finish(p))
             \/ ENABLED (\E p \in 1..N : Start(p)))
  /\ [][/\ pc = "pool" => PoolProgress' = PoolProgress + 1
        /\ summary' # summary => (summary = NoSummary /\ results' = results)
        /\ summary = NoSummary]_vars

C24_Witness ==
  /\ pc = "done" /\ N = MaxUrls
  /\ summary # NoSummary
  /\ summary.total = N
  /\ summary.failed > 0 /\ summary.successful > 0

\* C22: the process ends with a status other than zero exactly when a
\* required tool is missing, when the batch file gives no URL, or when the
\* only job of a run with one URL failed; in every other case, a batch with
\* failed jobs included, it ends with status zero.
C22_ExitStatus ==
  exit_status # <<>> =>
    LET tool_missing == main_in.missing # {}
        no_usable_url == main_in.source = "batch" /\ MainUrls(main_in) = <<>>
        only_job_failed ==
          /\ pc = "done" /\ N = 1
          /\ ~results[1].success
    IN (exit_status[1] # 0) <=>
         (tool_missing \/ no_usable_url \/ only_job_failed)

\* C19: no two jobs that are running at the same time work in the same
\* output subtree <output_dir>/<sanitized title>, also when two URLs of the
\* batch are equal or two titles sanitize to the same string.
C19_ExclusiveOutputSubtree ==
  \A p, q \in Running :
    (p # q /\ UsesOutputSubtree(env[p]) /\ UsesOutputSubtree(env[q]))
      => video_dir(urls[p]) # video_dir(urls[q])

====
